---------------------------- MODULE Spec2Model ----------------------------
(***************************************************************************)
(* Process and thread coordination of lib/wasix/src/os/task/process.rs:    *)
(* the checkpoint rendezvous of WasiProcessInner (checkpoint and           *)
(* maybe_checkpoint) and the CPU run-token / backoff-token scheduler of    *)
(* WasiProcess (acquire_cpu_run_token, acquire_cpu_backoff_token,          *)
(* CpuRunToken, CpuBackoffToken).                                          *)
(*                                                                         *)
(* Every section of code that runs with the process mutex held is one      *)
(* action, except the whole-process snapshot write, which is split into    *)
(* its issue and its completion (the mutex stays held in between).         *)
(***************************************************************************)
EXTENDS Integers, Sequences, FiniteSets, TLC

(***************************************************************************)
(* Bounds of the model.                                                    *)
(***************************************************************************)
\* Threads registered in the thread table of the process.
NumThreads == 2
\* Calls of WasiProcessInner::checkpoint over a behaviour.
MaxRequests == 2
\* Spurious returns of Condvar::wait over a behaviour.
MaxSpurious == 1

\* Concurrent callers of acquire_cpu_backoff_token.
NumCallers == 1
\* CpuRunToken values alive, or being acquired, at a time.
MaxRunTokens == 1
\* CpuBackoffToken values returned over a behaviour.
MaxTokens == 1
\* Polls of backoff tokens over a behaviour (cpu_backoff_waker_seed).
MaxSeed == 2
\* Cool-off periods the clock runs through.
MaxCoolOffs == 1
\* Milliseconds the clock advances in single steps after a whole number of
\* cool-off periods.
Slack == 2

\* Concurrent callers of new_thread, each making one call.
NumSpawners == 2
\* Child processes of the process.
NumChildren == 2
\* Concurrent callers of join, join_children and join_any_child.
NumJoiners == 1
\* tokens issued and cool-off periods that pass in the ratchet scenarios
RatchetTokens == 2
RatchetCoolOffs == 2

Threads == 1 .. NumThreads

Callers == 1 .. NumCallers

TokenIds == 1 .. MaxTokens

(***************************************************************************)
(* Constants of the program.  Durations are in milliseconds, the monotonic *)
(* clock and the cool-off deadline in nanoseconds.                         *)
(***************************************************************************)
\* Duration::from_millis(500)
max_cpu_cool_off_time == 500
\* Duration::from_secs(30), the maximum backoff without a configured one
DefaultMaxBackoff == 30000
\* Duration::from_millis(1), the first backoff
InitialBackoff == 1
\* 1_000_000 * as_millis()
NsPerMs == 1000000

\* Values of config().enable_exponential_cpu_backoff that are tried:
\* Some(0 ms), Some(1 ms), and None.
MaxBackoffChoices == {0, 1, DefaultMaxBackoff}

\* The clock stops here.
MaxNow == NsPerMs * (MaxCoolOffs * max_cpu_cool_off_time + Slack)
RatchetNow == NsPerMs * (RatchetCoolOffs * max_cpu_cool_off_time + Slack)

\* Option::None of CpuBackoffToken::waker_id.
NoWaker == 0

\* SnapshotTrigger values carried by WasiProcessCheckpoint::Snapshot.
Triggers == {"FirstListen", "Sigint"}

NoThread == 0

\* WasiProcess::pid of the process; its children have the next ids.
RootPid == 1

\* No process.
NoProc == 0

ChildPids == (RootPid + 1) .. (RootPid + NumChildren)

Procs == {RootPid} \cup ChildPids

\* The libc value of a thread id that stands for the whole process.
SentinelTid == 1073741823

Spawners == 1 .. NumSpawners

Joiners == 1 .. NumJoiners

\* Signal values that are sent and given intervals.
Signals == {"Sigint", "Sigalrm"}

\* Exit codes with which a process terminates.
ExitCodes == {0, 1}

(***************************************************************************)
(* State.                                                                  *)
(***************************************************************************)
VARIABLES
    \* WasiProcessInner, guarded by the process mutex
    checkpoint,         \* WasiProcessCheckpoint: Execute or Snapshot{trigger}
    threads,            \* thread table: WasiThreadId -> WasiThread
    \* WasiThread::is_check_pointing of every thread
    check_pointing,
    \* the mutex of LockableWasiProcessInner: the thread holding it
    inner_lock,
    \* position of every thread in checkpoint / maybe_checkpoint
    pc,
    \* calls of checkpoint made so far, spurious wake-ups so far
    requests,
    spurious,
    \* history of the journal: the checkpoint cycle (counted from the
    \* Execute -> Snapshot transitions), the whole-process writes issued,
    \* completed and failed in it, the last cycle whose write completed,
    \* and for every thread the cycle in which it found the phase Snapshot
    cycle,
    cycle_issued,
    cycle_done,
    cycle_failed,
    last_completed,
    entered

VARIABLES
    \* platform_clock_time_get(Monotonic), nanoseconds
    now,
    \* WasiProcess::cpu_run_tokens (atomic)
    cpu_run_tokens,
    \* WasiProcessInner, guarded by the process mutex
    cpu_backoff_wakers,      \* waker id -> waker (the token that registered it)
    cpu_backoff_waker_seed,
    cpu_backoff_time,        \* milliseconds, 0 is Duration::ZERO
    cpu_run_cool_off,        \* nanoseconds, 0 is unset
    max_cpu_backoff_time,    \* milliseconds
    \* calls of acquire_cpu_run_token between the fetch_add and the mutex
    run_locking,
    \* position of every caller in acquire_cpu_backoff_token, and its
    \* local cpu_backoff_time
    cpc,
    local_backoff_time,
    \* the CpuBackoffToken values: state, cpu_backoff_time, waker_id, the
    \* time at which the sleep of `wait` ends, and whether
    \* acquire_cpu_run_token removed a waker of the token since its last
    \* poll, and whether it reset the backoff time since the token was made
    tokens,
    \* history: whether a run token was held since the call of the caller
    \* began, whether the call wrote the backoff time or the cool-off
    \* deadline, what the last completed call returned, and the duration
    \* of the last token issued since the last acquire_cpu_run_token
    held,
    touched,
    ret,
    last_issued

VARIABLES
    \* WasiProcessInner of every process, guarded by its mutex
    proc_threads,       \* threads: WasiThreadId -> [is_main]
    thread_count,
    children,           \* Vec<WasiProcess>, as the pids in order
    signal_intervals,   \* Signal -> WasiSignalInterval (of the process)
    \* WasiProcess::waiting (atomic) and WasiProcess::finished
    waiting,
    finished,           \* OwnedTaskStatus: running or the exit code
    \* the control plane: the last id generate_id returned, and the
    \* processes get_process finds
    id_seed,
    registered,
    \* position of every caller in new_thread, and its locals
    nt_pc,
    nt_is_main,
    nt_tid,
    \* position of the caller in signal_process, the last signal call
    \* with its arguments, the threads it signalled and the processes
    \* whose signal_process it called
    sp_pc,
    sig_call,
    sig_delivered,
    sig_forwarded,
    \* every caller of a join function: its position, the function, the
    \* clone of the children list, the futures in `waits`, and what the
    \* last completed call returned
    jpc,
    jkind,
    jsnap,
    jwaits,
    jret,
    \* history: the child process that terminated first, and for
    \* every signal the arguments and the time of the last call of
    \* signal_interval, and whether the signal had a descriptor then
    first_exit,
    last_interval

VARIABLES
    \* the mutex of the LockableWasiProcessInner of every process: the
    \* operation that holds it
    locked_by,
    \* the calls of signal_process that are under way, outermost first:
    \* the process signalled, the position in the function and the index
    \* of the next child in `for child in inner.children.iter()`
    sp_stack

treeVars == << proc_threads, thread_count, children, signal_intervals,
               waiting, finished, id_seed, registered, nt_pc, nt_is_main,
               nt_tid, sp_pc, sig_call, sig_delivered, sig_forwarded, jpc,
               jkind, jsnap, jwaits, jret, first_exit, last_interval >>

backoffVars == << now, cpu_run_tokens, cpu_backoff_wakers,
                  cpu_backoff_waker_seed, cpu_backoff_time, cpu_run_cool_off,
                  max_cpu_backoff_time, run_locking, cpc, local_backoff_time,
                  tokens, held, touched, ret, last_issued >>

ckptVars == << checkpoint, threads, check_pointing, inner_lock, pc, requests,
               spurious, cycle, cycle_issued, cycle_done, cycle_failed,
               last_completed, entered >>

lockVars == << locked_by, sp_stack >>

vars == << ckptVars, backoffVars, treeVars, lockVars >>

(***************************************************************************)
(* WasiProcessCheckpoint.                                                  *)
(***************************************************************************)
Execute == << "Execute" >>

Snapshot(trigger) == << "Snapshot", trigger >>

IsSnapshot(phase) == phase[1] = "Snapshot"

(***************************************************************************)
(* guard.threads.values().all(WasiThread::is_check_pointing), evaluated    *)
(* with the marks cp.                                                      *)
(***************************************************************************)
IsLastThread_any(cp) == \E tid \in DOMAIN threads : cp[threads[tid]]

IsLastThread(cp) == \A tid \in DOMAIN threads : cp[threads[tid]]

(***************************************************************************)
(* Condvar::notify_all: every thread blocked in Condvar::wait is made      *)
(* runnable; it still has to take the mutex again.                         *)
(***************************************************************************)
NotifyAll_none(p) == p

NotifyAll(p) == [u \in Threads |-> IF p[u] = "wait" THEN "woken" ELSE p[u]]

\* The phase written after a successful whole-process write.
PhaseAfterSave == Execute

(***************************************************************************)
(* The process after WasiProcess::new and the creation of its threads:     *)
(* thread t has identifier t, thread 1 is the main thread.                 *)
(***************************************************************************)
InitCheckpoint ==
    /\ checkpoint = Execute
    /\ threads = [tid \in Threads |-> tid]
    /\ check_pointing = [t \in Threads |-> FALSE]
    /\ inner_lock = NoThread
    /\ pc = [t \in Threads |-> "run"]
    /\ requests = 0
    /\ spurious = 0
    /\ cycle = 0
    /\ cycle_issued = 0
    /\ cycle_done = 0
    /\ cycle_failed = 0
    /\ last_completed = 0
    /\ entered = [t \in Threads |-> 0]

(***************************************************************************)
(* WasiProcessInner::checkpoint, the block that sets the phase.  The call  *)
(* of maybe_checkpoint that follows takes the mutex again.                 *)
(***************************************************************************)
Checkpoint(t, trigger) ==
    /\ pc[t] = "run"
    /\ inner_lock = NoThread
    /\ requests < MaxRequests
    /\ requests' = requests + 1
    /\ checkpoint' = Snapshot(trigger)
    /\ pc' = [pc EXCEPT ![t] = "entry"]
    /\ IF IsSnapshot(checkpoint)
         THEN UNCHANGED << cycle, cycle_issued, cycle_done, cycle_failed >>
         ELSE /\ cycle' = cycle + 1
              /\ cycle_issued' = 0
              /\ cycle_done' = 0
              /\ cycle_failed' = 0
    /\ UNCHANGED << threads, check_pointing, inner_lock, spurious,
                    last_completed, entered >>
    /\ UNCHANGED << backoffVars, treeVars, lockVars >>

(***************************************************************************)
(* maybe_checkpoint up to the unwind: with the phase Execute it returns    *)
(* NotThisTime, otherwise the thread starts to unwind.                     *)
(***************************************************************************)
MaybeCheckpoint(t) ==
    /\ pc[t] \in {"run", "entry"}
    /\ inner_lock = NoThread
    /\ IF checkpoint = Execute
         THEN /\ pc' = [pc EXCEPT ![t] = "run"]
              /\ UNCHANGED entered
         ELSE /\ pc' = [pc EXCEPT ![t] = "unwind"]
              /\ entered' = [entered EXCEPT ![t] = cycle]
    /\ UNCHANGED << checkpoint, threads, check_pointing, inner_lock, requests,
                    spurious, cycle, cycle_issued, cycle_done, cycle_failed,
                    last_completed >>
    /\ UNCHANGED << backoffVars, treeVars, lockVars >>

(***************************************************************************)
(* The unwind callback up to the mutex: JournalEffector::save_thread_state *)
(* succeeds, or fails and traps the thread.                                *)
(***************************************************************************)
SaveThreadStateOk(t) ==
    /\ pc[t] = "unwind"
    /\ pc' = [pc EXCEPT ![t] = "lock"]
    /\ UNCHANGED << checkpoint, threads, check_pointing, inner_lock, requests,
                    spurious, cycle, cycle_issued, cycle_done, cycle_failed,
                    last_completed, entered >>
    /\ UNCHANGED << backoffVars, treeVars, lockVars >>

SaveThreadStateErr(t) ==
    /\ pc[t] = "unwind"
    /\ pc' = [pc EXCEPT ![t] = "trapped"]
    /\ UNCHANGED << checkpoint, threads, check_pointing, inner_lock, requests,
                    spurious, cycle, cycle_issued, cycle_done, cycle_failed,
                    last_completed, entered >>
    /\ UNCHANGED << backoffVars, treeVars, lockVars >>

(***************************************************************************)
(* inner.0.lock() before the loop, and the mutex taken again when          *)
(* Condvar::wait returns.                                                  *)
(***************************************************************************)
Lock(t) ==
    /\ pc[t] \in {"lock", "woken"}
    /\ inner_lock = NoThread
    /\ inner_lock' = t
    /\ pc' = [pc EXCEPT ![t] = "loop"]
    /\ UNCHANGED << checkpoint, threads, check_pointing, requests, spurious,
                    cycle, cycle_issued, cycle_done, cycle_failed,
                    last_completed, entered >>
    /\ UNCHANGED << backoffVars, treeVars, lockVars >>

(***************************************************************************)
(* One pass of the loop with the phase Snapshot: the thread marks itself   *)
(* and, when every thread of the table is marked, goes on to the           *)
(* whole-process write; otherwise it blocks in Condvar::wait, which        *)
(* releases the mutex.                                                     *)
(***************************************************************************)
LoopSnapshot(t) ==
    /\ pc[t] = "loop"
    /\ inner_lock = t
    /\ IsSnapshot(checkpoint)
    /\ check_pointing' = [check_pointing EXCEPT ![t] = TRUE]
    /\ IF IsLastThread(check_pointing')
         THEN /\ pc' = [pc EXCEPT ![t] = "save"]
              /\ UNCHANGED inner_lock
         ELSE /\ pc' = [pc EXCEPT ![t] = "wait"]
              /\ inner_lock' = NoThread
    /\ UNCHANGED << checkpoint, threads, requests, spurious, cycle,
                    cycle_issued, cycle_done, cycle_failed, last_completed,
                    entered >>
    /\ UNCHANGED << backoffVars, treeVars, lockVars >>

(***************************************************************************)
(* One pass of the loop with the phase Execute: the thread clears its mark *)
(* and goes on to rewind its stack.                                        *)
(***************************************************************************)
LoopFinished(t) ==
    /\ pc[t] = "loop"
    /\ inner_lock = t
    /\ ~IsSnapshot(checkpoint)
    /\ check_pointing' = [check_pointing EXCEPT ![t] = FALSE]
    /\ pc' = [pc EXCEPT ![t] = "rewind"]
    /\ UNCHANGED << checkpoint, threads, inner_lock, requests, spurious, cycle,
                    cycle_issued, cycle_done, cycle_failed, last_completed,
                    entered >>
    /\ UNCHANGED << backoffVars, treeVars, lockVars >>

(***************************************************************************)
(* JournalEffector::save_memory_and_snapshot is called with the mutex held.*)
(***************************************************************************)
SaveMemoryBegin(t) ==
    /\ pc[t] = "save"
    /\ inner_lock = t
    /\ pc' = [pc EXCEPT ![t] = "saving"]
    /\ cycle_issued' = cycle_issued + 1
    /\ UNCHANGED << checkpoint, threads, check_pointing, inner_lock, requests,
                    spurious, cycle, cycle_done, cycle_failed, last_completed,
                    entered >>
    /\ UNCHANGED << backoffVars, treeVars, lockVars >>

(***************************************************************************)
(* The write succeeded: the mark of the thread is cleared, the phase is    *)
(* reset, everyone is notified and the loop continues.                     *)
(***************************************************************************)
SaveMemoryOk(t) ==
    /\ pc[t] = "saving"
    /\ inner_lock = t
    /\ check_pointing' = [check_pointing EXCEPT ![t] = FALSE]
    /\ checkpoint' = PhaseAfterSave
    /\ pc' = [NotifyAll(pc) EXCEPT ![t] = "loop"]
    /\ cycle_done' = cycle_done + 1
    /\ last_completed' = cycle
    /\ UNCHANGED << threads, inner_lock, requests, spurious, cycle,
                    cycle_issued, cycle_failed, entered >>
    /\ UNCHANGED << backoffVars, treeVars, lockVars >>

(***************************************************************************)
(* The write failed: everyone is notified and the thread traps, which      *)
(* drops the guard.  The phase and the mark of the thread stay as they are.*)
(***************************************************************************)
SaveMemoryErr_silent(t) ==
    /\ pc[t] = "saving"
    /\ inner_lock = t
    /\ pc' = [pc EXCEPT ![t] = "trapped"]
    /\ inner_lock' = NoThread
    /\ cycle_failed' = cycle_failed + 1
    /\ UNCHANGED << checkpoint, threads, check_pointing, requests, spurious,
                    cycle, cycle_issued, cycle_done, last_completed, entered >>
    /\ UNCHANGED << backoffVars, treeVars, lockVars >>

SaveMemoryErr(t) ==
    /\ pc[t] = "saving"
    /\ inner_lock = t
    /\ pc' = [NotifyAll(pc) EXCEPT ![t] = "trapped"]
    /\ inner_lock' = NoThread
    /\ cycle_failed' = cycle_failed + 1
    /\ UNCHANGED << checkpoint, threads, check_pointing, requests, spurious,
                    cycle, cycle_issued, cycle_done, last_completed, entered >>
    /\ UNCHANGED << backoffVars, treeVars, lockVars >>

(***************************************************************************)
(* rewind_ext: the thread resumes (InvokeAgain) or traps; the guard is     *)
(* dropped when the callback returns.                                      *)
(***************************************************************************)
RewindOk(t) ==
    /\ pc[t] = "rewind"
    /\ inner_lock = t
    /\ pc' = [pc EXCEPT ![t] = "run"]
    /\ inner_lock' = NoThread
    /\ UNCHANGED << checkpoint, threads, check_pointing, requests, spurious,
                    cycle, cycle_issued, cycle_done, cycle_failed,
                    last_completed, entered >>
    /\ UNCHANGED << backoffVars, treeVars, lockVars >>

RewindErr(t) ==
    /\ pc[t] = "rewind"
    /\ inner_lock = t
    /\ pc' = [pc EXCEPT ![t] = "trapped"]
    /\ inner_lock' = NoThread
    /\ UNCHANGED << checkpoint, threads, check_pointing, requests, spurious,
                    cycle, cycle_issued, cycle_done, cycle_failed,
                    last_completed, entered >>
    /\ UNCHANGED << backoffVars, treeVars, lockVars >>

(***************************************************************************)
(* Condvar::wait may return without a notification.                        *)
(***************************************************************************)
SpuriousWake(t) ==
    /\ pc[t] = "wait"
    /\ spurious < MaxSpurious
    /\ spurious' = spurious + 1
    /\ pc' = [pc EXCEPT ![t] = "woken"]
    /\ UNCHANGED << checkpoint, threads, check_pointing, inner_lock, requests,
                    cycle, cycle_issued, cycle_done, cycle_failed,
                    last_completed, entered >>
    /\ UNCHANGED << backoffVars, treeVars, lockVars >>


(***************************************************************************)
(* CPU throttle scheduler.                                                 *)
(***************************************************************************)
\* A CpuBackoffToken in state st: not created yet ("absent"), polled to
\* completion ("ready") or dropped ("dropped").
Token(st) ==
    [state |-> st, cpu_backoff_time |-> 0, wake_at |-> 0,
     waker_id |-> NoWaker, cancelled |-> FALSE, stale |-> FALSE]

\* What a call of acquire_cpu_backoff_token returned.
NoReturn == [val |-> "-", held |-> FALSE, touched |-> FALSE]

\* HashMap::remove and HashMap::insert on cpu_backoff_wakers.
RemoveWaker(wakers, id) == [i \in DOMAIN wakers \ {id} |-> wakers[i]]

InsertWaker(wakers, id, waker) ==
    [i \in DOMAIN wakers \cup {id} |-> IF i = id THEN waker ELSE wakers[i]]

\* self.cpu_run_tokens.load(Ordering::SeqCst) > 0
RunTokensHeld_never == FALSE

RunTokensHeld == cpu_run_tokens > 0

\* now <= inner.cpu_run_cool_off
StillCoolingOff_strict(n, deadline) == n < deadline

StillCoolingOff(n, deadline) == n <= deadline

\* inner.cpu_backoff_time *= 2, capped by max_cpu_backoff_time
Ratchet(time) ==
    IF 2 * time > max_cpu_backoff_time THEN max_cpu_backoff_time ELSE 2 * time

\* Tokens created so far, and the id of the next one.
TokensIssued == {k \in DOMAIN tokens : tokens[k].state # "absent"}

NextToken == Cardinality(TokensIssued) + 1

\* Calls of acquire_cpu_backoff_token that are under way.
BackoffCallers == {c \in Callers : cpc[c] # "idle"}

(***************************************************************************)
(* The scheduler after WasiProcess::new with the maximum backoff max.      *)
(***************************************************************************)
InitCpuTokens(max, ids) ==
    /\ now = 0
    /\ cpu_run_tokens = 0
    /\ cpu_backoff_wakers = << >>
    /\ cpu_backoff_waker_seed = 0
    /\ cpu_backoff_time = 0
    /\ cpu_run_cool_off = 0
    /\ max_cpu_backoff_time = max
    /\ run_locking = 0
    /\ cpc = [c \in Callers |-> "idle"]
    /\ local_backoff_time = [c \in Callers |-> 0]
    /\ tokens = [k \in ids |-> Token("absent")]
    /\ held = [c \in Callers |-> FALSE]
    /\ touched = [c \in Callers |-> FALSE]
    /\ ret = NoReturn
    /\ last_issued = 0

InitCpu(max) == InitCpuTokens(max, TokenIds)

(***************************************************************************)
(* The monotonic clock advances by one millisecond or by one cool-off      *)
(* period.                                                                 *)
(***************************************************************************)
TickUntil(ms, horizon) ==
    /\ now + NsPerMs * ms <= horizon
    /\ ms < max_cpu_cool_off_time =>
           ((now \div NsPerMs) % max_cpu_cool_off_time) + ms <= Slack
    /\ now' = now + NsPerMs * ms
    /\ UNCHANGED << cpu_run_tokens, cpu_backoff_wakers, cpu_backoff_waker_seed,
                    cpu_backoff_time, cpu_run_cool_off, max_cpu_backoff_time,
                    run_locking, cpc, local_backoff_time, tokens, held,
                    touched, ret, last_issued >>
    /\ UNCHANGED << ckptVars, treeVars, lockVars >>

Tick(ms) == TickUntil(ms, MaxNow)

(***************************************************************************)
(* acquire_cpu_run_token: the fetch_add, before the mutex is taken.        *)
(***************************************************************************)
RunTokenAdd ==
    /\ cpu_run_tokens < MaxRunTokens
    /\ cpu_run_tokens' = cpu_run_tokens + 1
    /\ run_locking' = run_locking + 1
    /\ UNCHANGED << now, cpu_backoff_wakers, cpu_backoff_waker_seed,
                    cpu_backoff_time, cpu_run_cool_off, max_cpu_backoff_time,
                    cpc, local_backoff_time, tokens, held, touched, ret,
                    last_issued >>
    /\ UNCHANGED << ckptVars, treeVars, lockVars >>

(***************************************************************************)
(* acquire_cpu_run_token under the mutex: every registered waker is woken, *)
(* the waker map is cleared, the backoff time and the cool-off deadline    *)
(* are reset, and the CpuRunToken is returned.                             *)
(***************************************************************************)
RunTokenLocked ==
    /\ run_locking > 0
    /\ inner_lock = NoThread
    /\ tokens' = [k \in DOMAIN tokens |->
                    [tokens[k] EXCEPT
                        !.cancelled =
                            IF \E id \in DOMAIN cpu_backoff_wakers :
                                   cpu_backoff_wakers[id] = k
                              THEN tokens[k].state = "pending"
                              ELSE @,
                        !.stale = tokens[k].state = "pending"]]
    /\ cpu_backoff_wakers' = << >>
    /\ cpu_backoff_time' = 0
    /\ cpu_run_cool_off' = 0
    /\ run_locking' = run_locking - 1
    /\ last_issued' = 0
    /\ UNCHANGED << now, cpu_run_tokens, cpu_backoff_waker_seed,
                    max_cpu_backoff_time, cpc, local_backoff_time, held,
                    touched, ret >>
    /\ UNCHANGED << ckptVars, treeVars, lockVars >>

(***************************************************************************)
(* Drop for CpuRunToken, of a token that acquire_cpu_run_token returned.   *)
(***************************************************************************)
DropRunToken ==
    /\ cpu_run_tokens > run_locking
    /\ cpu_run_tokens' = cpu_run_tokens - 1
    /\ held' = [c \in Callers |-> held[c] /\ cpu_run_tokens' > 0]
    /\ UNCHANGED << now, cpu_backoff_wakers, cpu_backoff_waker_seed,
                    cpu_backoff_time, cpu_run_cool_off, max_cpu_backoff_time,
                    run_locking, cpc, local_backoff_time, tokens, touched, ret,
                    last_issued >>
    /\ UNCHANGED << ckptVars, treeVars, lockVars >>

(***************************************************************************)
(* acquire_cpu_backoff_token, the check before the mutex.                  *)
(***************************************************************************)
BackoffCheckUpTo(c, limit) ==
    /\ cpc[c] = "idle"
    /\ Cardinality(TokensIssued) + Cardinality(BackoffCallers) < limit
    /\ IF RunTokensHeld
         THEN /\ ret' = [val |-> "None", held |-> cpu_run_tokens > 0,
                         touched |-> FALSE]
              /\ UNCHANGED << cpc, held >>
         ELSE /\ cpc' = [cpc EXCEPT ![c] = "backoff_lock"]
              /\ held' = [held EXCEPT ![c] = cpu_run_tokens > 0]
              /\ UNCHANGED ret
    /\ UNCHANGED << now, cpu_run_tokens, cpu_backoff_wakers,
                    cpu_backoff_waker_seed, cpu_backoff_time, cpu_run_cool_off,
                    max_cpu_backoff_time, run_locking, local_backoff_time,
                    tokens, touched, last_issued >>
    /\ UNCHANGED << ckptVars, treeVars, lockVars >>

BackoffCheck(c) == BackoffCheckUpTo(c, MaxTokens)

(***************************************************************************)
(* acquire_cpu_backoff_token under the mutex: the second check of the run  *)
(* tokens, the cool-off period, and the backoff time of the token.         *)
(***************************************************************************)
BackoffLocked(c) ==
    /\ cpc[c] = "backoff_lock"
    /\ inner_lock = NoThread
    /\ IF RunTokensHeld
         THEN /\ ret' = [val |-> "None", held |-> held[c], touched |-> FALSE]
              /\ cpc' = [cpc EXCEPT ![c] = "idle"]
              /\ held' = [held EXCEPT ![c] = FALSE]
              /\ UNCHANGED << cpu_run_cool_off, cpu_backoff_time,
                              local_backoff_time, touched, last_issued >>
         ELSE LET deadline ==
                      IF cpu_run_cool_off = 0
                        THEN now + NsPerMs * max_cpu_cool_off_time
                        ELSE cpu_run_cool_off
                  time ==
                      IF cpu_backoff_time = 0
                        THEN InitialBackoff
                        ELSE cpu_backoff_time
              IN  /\ cpu_run_cool_off' = deadline
                  /\ IF StillCoolingOff(now, deadline)
                       THEN /\ ret' = [val |-> "None", held |-> held[c],
                                       touched |-> deadline # cpu_run_cool_off]
                            /\ cpc' = [cpc EXCEPT ![c] = "idle"]
                            /\ held' = [held EXCEPT ![c] = FALSE]
                            /\ UNCHANGED << cpu_backoff_time,
                                            local_backoff_time, touched,
                                            last_issued >>
                       ELSE /\ cpu_backoff_time' = time
                            /\ local_backoff_time' =
                                   [local_backoff_time EXCEPT ![c] = time]
                            /\ touched' = [touched EXCEPT ![c] =
                                              \/ deadline # cpu_run_cool_off
                                              \/ time # cpu_backoff_time]
                            /\ last_issued' = time
                            /\ cpc' = [cpc EXCEPT ![c] = "backoff_sleep"]
                            /\ UNCHANGED << ret, held >>
    /\ UNCHANGED << now, cpu_run_tokens, cpu_backoff_wakers,
                    cpu_backoff_waker_seed, max_cpu_backoff_time, run_locking,
                    tokens >>
    /\ UNCHANGED << ckptVars, treeVars, lockVars >>

(***************************************************************************)
(* acquire_cpu_backoff_token after the mutex: tasks.sleep_now and the      *)
(* CpuBackoffToken that is returned, with no waker id.                     *)
(***************************************************************************)
BackoffReturn(c) ==
    /\ cpc[c] = "backoff_sleep"
    /\ tokens' = [tokens EXCEPT ![NextToken] =
                     [state |-> "pending",
                      cpu_backoff_time |-> local_backoff_time[c],
                      wake_at |-> now + NsPerMs * local_backoff_time[c],
                      waker_id |-> NoWaker,
                      cancelled |-> FALSE,
                      stale |-> FALSE]]
    /\ ret' = [val |-> "Token", held |-> held[c], touched |-> touched[c]]
    /\ cpc' = [cpc EXCEPT ![c] = "idle"]
    /\ local_backoff_time' = [local_backoff_time EXCEPT ![c] = 0]
    /\ held' = [held EXCEPT ![c] = FALSE]
    /\ touched' = [touched EXCEPT ![c] = FALSE]
    /\ UNCHANGED << now, cpu_run_tokens, cpu_backoff_wakers,
                    cpu_backoff_waker_seed, cpu_backoff_time, cpu_run_cool_off,
                    max_cpu_backoff_time, run_locking, last_issued >>
    /\ UNCHANGED << ckptVars, treeVars, lockVars >>

(***************************************************************************)
(* CpuBackoffToken::poll.  The waker id of the token is taken; if there    *)
(* was one and the map no longer holds it, the token is ready.  Otherwise  *)
(* a waker is registered under a fresh id, which is not stored in the      *)
(* token, and the sleep is polled; when it has ended and the backoff time  *)
(* of the process is still the one of the token, that time is doubled and  *)
(* capped.                                                                 *)
(***************************************************************************)
Poll(k) ==
    /\ tokens[k].state = "pending"
    /\ inner_lock = NoThread
    /\ cpu_backoff_waker_seed < MaxSeed
    /\ LET waker_id == tokens[k].waker_id
           removed ==
               IF waker_id # NoWaker
                 THEN RemoveWaker(cpu_backoff_wakers, waker_id)
                 ELSE cpu_backoff_wakers
           id == cpu_backoff_waker_seed + 1
           ready == now >= tokens[k].wake_at
       IN  IF waker_id # NoWaker /\ waker_id \notin DOMAIN cpu_backoff_wakers
             THEN /\ tokens' = [tokens EXCEPT ![k] = Token("ready")]
                  /\ UNCHANGED << cpu_backoff_wakers, cpu_backoff_waker_seed,
                                  cpu_backoff_time >>
             ELSE /\ cpu_backoff_waker_seed' = id
                  /\ cpu_backoff_wakers' = InsertWaker(removed, id, k)
                  /\ tokens' = [tokens EXCEPT ![k] =
                                   IF ready
                                     THEN Token("ready")
                                     ELSE [@ EXCEPT !.waker_id = NoWaker,
                                                    !.cancelled = FALSE]]
                  /\ cpu_backoff_time' =
                         IF ready /\ tokens[k].cpu_backoff_time = cpu_backoff_time
                           THEN Ratchet(cpu_backoff_time)
                           ELSE cpu_backoff_time
    /\ UNCHANGED << now, cpu_run_tokens, cpu_run_cool_off,
                    max_cpu_backoff_time, run_locking, cpc, local_backoff_time,
                    held, touched, ret, last_issued >>
    /\ UNCHANGED << ckptVars, treeVars, lockVars >>

(***************************************************************************)
(* Drop for CpuBackoffToken: the waker registered under the waker id of    *)
(* the token, if it has one, is removed.                                   *)
(***************************************************************************)
DropBackoffToken(k) ==
    /\ tokens[k].state \in {"pending", "ready"}
    /\ inner_lock = NoThread
    /\ cpu_backoff_wakers' =
           IF tokens[k].waker_id # NoWaker
             THEN RemoveWaker(cpu_backoff_wakers, tokens[k].waker_id)
             ELSE cpu_backoff_wakers
    /\ tokens' = [tokens EXCEPT ![k] = Token("dropped")]
    /\ UNCHANGED << now, cpu_run_tokens, cpu_backoff_waker_seed,
                    cpu_backoff_time, cpu_run_cool_off, max_cpu_backoff_time,
                    run_locking, cpc, local_backoff_time, held, touched, ret,
                    last_issued >>
    /\ UNCHANGED << ckptVars, treeVars, lockVars >>

(***************************************************************************)
(* The process tree: the process RootPid, its threads, its children and    *)
(* the calls of new_thread, signal_thread, signal_process, signal_interval *)
(* and of the join functions on it.                                        *)
(***************************************************************************)
\* The id of the first thread that is not a main thread.
FirstThreadId == RootPid + NumChildren + 1

\* A thread table with the main thread only, and one with a second thread.
MainOnly(pid) == [tid \in {pid} |-> [is_main |-> TRUE]]

MainAndOne(pid) == [tid \in {pid, FirstThreadId} |-> [is_main |-> tid = pid]]

\* HashMap::insert on a map: the entry of the key is replaced.
MapInsert(map, key, value) ==
    [k \in DOMAIN map \cup {key} |-> IF k = key THEN value ELSE map[k]]

\* HashMap::remove on a map.
MapRemove_keep(map, key) == map

MapRemove(map, key) == [k \in DOMAIN map \ {key} |-> map[k]]

\* A mutex that no operation holds.
Free == "-"

\* No call of signal_thread or signal_process was made yet.
NoSignalCall == [op |-> "-", tid |-> 0, signal |-> "-"]

\* No call of a join function has completed since the last one began.
NoJoinReturn ==
    [kind |-> "-", val |-> "-", pid |-> 0, code |-> 0, dropped |-> 0,
     removed |-> 0]

\* OwnedTaskStatus of a process: running, or finished with an exit code.
Running == [done |-> FALSE, code |-> 0]

Finished(code) == [done |-> TRUE, code |-> code]

\* Option<Duration> arguments of signal_interval, in milliseconds.
IntervalChoices ==
    {[some |-> FALSE, ms |-> 0], [some |-> TRUE, ms |-> 1],
     [some |-> TRUE, ms |-> 2]}

\* No call of signal_interval for a signal, or the last one passed None.
NoInterval ==
    [some |-> FALSE, ms |-> 0, repeat |-> FALSE, at |-> 0, replaced |-> FALSE]

(***************************************************************************)
(* The tree after WasiProcess::new of every process: the children have     *)
(* their main thread, the process RootPid has the thread table `table` and *)
(* the children `kids`, ids up to `seed` were generated, and get_process   *)
(* of the control plane finds the children `known`.                        *)
(***************************************************************************)
InitTree(table, kids, seed, known) ==
    /\ proc_threads = [p \in Procs |->
                          IF p = RootPid THEN table ELSE MainOnly(p)]
    /\ thread_count = [p \in Procs |->
                          IF p = RootPid
                            THEN Cardinality(DOMAIN table)
                            ELSE 1]
    /\ children = [p \in Procs |-> IF p = RootPid THEN kids ELSE << >>]
    /\ signal_intervals = << >>
    /\ waiting = [p \in Procs |-> 0]
    /\ finished = [p \in Procs |-> Running]
    /\ id_seed = seed
    /\ registered = {RootPid} \cup known
    /\ nt_pc = [s \in Spawners |-> "idle"]
    /\ nt_is_main = [s \in Spawners |-> FALSE]
    /\ nt_tid = [s \in Spawners |-> 0]
    /\ sp_pc = "idle"
    /\ sig_call = NoSignalCall
    /\ sig_delivered = {}
    /\ sig_forwarded = {}
    /\ jpc = [j \in Joiners |-> "idle"]
    /\ jkind = [j \in Joiners |-> "-"]
    /\ jsnap = [j \in Joiners |-> << >>]
    /\ jwaits = [j \in Joiners |-> << >>]
    /\ jret = NoJoinReturn
    /\ first_exit = NoProc
    /\ last_interval = [sig \in Signals |-> NoInterval]
    /\ locked_by = [p \in Procs |-> Free]
    /\ sp_stack = << >>

\* A process that was just created: no thread, no child.
InitTreeFresh == InitTree(<< >>, << >>, RootPid + NumChildren, ChildPids)

(***************************************************************************)
(* new_thread: control_plane.register_task().                              *)
(***************************************************************************)
NewThreadRegister(s) ==
    /\ nt_pc[s] = "idle"
    /\ nt_pc' = [nt_pc EXCEPT ![s] = "check"]
    /\ UNCHANGED << proc_threads, thread_count, children, signal_intervals,
                    waiting, finished, id_seed, registered, nt_is_main,
                    nt_tid, sp_pc, sig_call, sig_delivered, sig_forwarded,
                    jpc, jkind, jsnap, jwaits, jret, first_exit,
                    last_interval >>
    /\ UNCHANGED << ckptVars, backoffVars, lockVars >>

\* register_task fails: new_thread returns the error.
NewThreadRegisterErr(s) ==
    /\ nt_pc[s] = "idle"
    /\ nt_pc' = [nt_pc EXCEPT ![s] = "failed"]
    /\ UNCHANGED << proc_threads, thread_count, children, signal_intervals,
                    waiting, finished, id_seed, registered, nt_is_main,
                    nt_tid, sp_pc, sig_call, sig_delivered, sig_forwarded,
                    jpc, jkind, jsnap, jwaits, jret, first_exit,
                    last_interval >>
    /\ UNCHANGED << ckptVars, backoffVars, lockVars >>

(***************************************************************************)
(* new_thread: is_main is read from thread_count under the mutex, which    *)
(* is released again.                                                      *)
(***************************************************************************)
NewThreadCheck(s) ==
    /\ nt_pc[s] = "check"
    /\ inner_lock = NoThread
    /\ nt_is_main' = [nt_is_main EXCEPT ![s] = thread_count[RootPid] = 0]
    /\ nt_pc' = [nt_pc EXCEPT ![s] = "tid"]
    /\ UNCHANGED << proc_threads, thread_count, children, signal_intervals,
                    waiting, finished, id_seed, registered, nt_tid, sp_pc,
                    sig_call, sig_delivered, sig_forwarded, jpc, jkind, jsnap,
                    jwaits, jret, first_exit, last_interval >>
    /\ UNCHANGED << ckptVars, backoffVars, lockVars >>

(***************************************************************************)
(* new_thread: the thread id is the pid for the main thread and an id      *)
(* generated by the control plane otherwise.                               *)
(***************************************************************************)
NewThreadTid(s) ==
    /\ nt_pc[s] = "tid"
    /\ IF nt_is_main[s]
         THEN /\ nt_tid' = [nt_tid EXCEPT ![s] = RootPid]
              /\ UNCHANGED id_seed
         ELSE /\ id_seed' = id_seed + 1
              /\ nt_tid' = [nt_tid EXCEPT ![s] = id_seed']
    /\ nt_pc' = [nt_pc EXCEPT ![s] = "insert"]
    /\ UNCHANGED << proc_threads, thread_count, children, signal_intervals,
                    waiting, finished, registered, nt_is_main, sp_pc,
                    sig_call, sig_delivered, sig_forwarded, jpc, jkind, jsnap,
                    jwaits, jret, first_exit, last_interval >>
    /\ UNCHANGED << ckptVars, backoffVars, lockVars >>

\* generate_id fails: new_thread returns the error.
NewThreadTidErr(s) ==
    /\ nt_pc[s] = "tid"
    /\ ~nt_is_main[s]
    /\ nt_pc' = [nt_pc EXCEPT ![s] = "failed"]
    /\ UNCHANGED << proc_threads, thread_count, children, signal_intervals,
                    waiting, finished, id_seed, registered, nt_is_main,
                    nt_tid, sp_pc, sig_call, sig_delivered, sig_forwarded,
                    jpc, jkind, jsnap, jwaits, jret, first_exit,
                    last_interval >>
    /\ UNCHANGED << ckptVars, backoffVars, lockVars >>

(***************************************************************************)
(* new_thread: under the mutex again, the thread is inserted into the      *)
(* table under its id and the thread counter is incremented.               *)
(***************************************************************************)
NewThreadInsert(s) ==
    /\ nt_pc[s] = "insert"
    /\ inner_lock = NoThread
    /\ proc_threads' =
           [proc_threads EXCEPT ![RootPid] =
               MapInsert(@, nt_tid[s], [is_main |-> nt_is_main[s]])]
    /\ thread_count' = [thread_count EXCEPT ![RootPid] = @ + 1]
    /\ nt_pc' = [nt_pc EXCEPT ![s] = "done"]
    /\ UNCHANGED << children, signal_intervals, waiting, finished, id_seed,
                    registered, nt_is_main, nt_tid, sp_pc, sig_call,
                    sig_delivered, sig_forwarded, jpc, jkind, jsnap, jwaits,
                    jret, first_exit, last_interval >>
    /\ UNCHANGED << ckptVars, backoffVars, lockVars >>

(***************************************************************************)
(* signal_thread: the sentinel id is replaced by the pid, and the thread   *)
(* with the resulting id is signalled if the table has it.                 *)
(***************************************************************************)
ResolveTid_raw(tid) == tid

ResolveTid(tid) == IF tid = SentinelTid THEN RootPid ELSE tid

\* Thread ids with which signal_thread is called.
SignalTids == {SentinelTid, RootPid, FirstThreadId}

SignalThread(tid, signal) ==
    /\ sp_pc = "idle"
    /\ inner_lock = NoThread
    /\ sig_call' = [op |-> "signal_thread", tid |-> tid, signal |-> signal]
    /\ sig_delivered' =
           IF ResolveTid(tid) \in DOMAIN proc_threads[RootPid]
             THEN {<< RootPid, ResolveTid(tid) >>}
             ELSE {}
    /\ sig_forwarded' = {}
    /\ UNCHANGED << proc_threads, thread_count, children, signal_intervals,
                    waiting, finished, id_seed, registered, nt_pc, nt_is_main,
                    nt_tid, sp_pc, jpc, jkind, jsnap, jwaits, jret, first_exit,
                    last_interval >>
    /\ UNCHANGED << ckptVars, backoffVars, lockVars >>

(***************************************************************************)
(* A process created a moment ago, with concurrent calls of new_thread and *)
(* calls of signal_thread.                                                 *)
(***************************************************************************)
InitThreads ==
    /\ InitCheckpoint
    /\ InitCpu(DefaultMaxBackoff)
    /\ InitTreeFresh

NextThreads ==
    \/ \E s \in Spawners : NewThreadRegister(s)
    \/ \E s \in Spawners : NewThreadRegisterErr(s)
    \/ \E s \in Spawners : NewThreadCheck(s)
    \/ \E s \in Spawners : NewThreadTid(s)
    \/ \E s \in Spawners : NewThreadTidErr(s)
    \/ \E s \in Spawners : NewThreadInsert(s)
    \/ \E tid \in SignalTids, signal \in Signals : SignalThread(tid, signal)

SpecThreads == InitThreads /\ [][NextThreads]_vars

(***************************************************************************)
(* signal_interval: None removes the descriptor of the signal; otherwise a *)
(* descriptor with the current time as last_signal is inserted under the   *)
(* signal, replacing the one that was there.                               *)
(***************************************************************************)
SignalInterval(signal, interval, repeat) ==
    /\ inner_lock = NoThread
    /\ IF ~interval.some
         THEN /\ signal_intervals' = MapRemove(signal_intervals, signal)
              /\ last_interval' = [last_interval EXCEPT ![signal] = NoInterval]
         ELSE /\ signal_intervals' =
                     MapInsert(signal_intervals, signal,
                               [signal |-> signal, interval |-> interval.ms,
                                last_signal |-> now, repeat |-> repeat])
              /\ last_interval' =
                     [last_interval EXCEPT ![signal] =
                         [some |-> TRUE, ms |-> interval.ms,
                          repeat |-> repeat, at |-> now,
                          replaced |-> signal \in DOMAIN signal_intervals]]
    /\ UNCHANGED << proc_threads, thread_count, children, waiting, finished,
                    id_seed, registered, nt_pc, nt_is_main, nt_tid, sp_pc,
                    sig_call, sig_delivered, sig_forwarded, jpc, jkind, jsnap,
                    jwaits, jret, first_exit >>
    /\ UNCHANGED << ckptVars, backoffVars, lockVars >>

(***************************************************************************)
(* Calls of signal_interval while the clock advances.                      *)
(***************************************************************************)
NextIntervals ==
    \/ \E ms \in {1, max_cpu_cool_off_time} : Tick(ms)
    \/ \E signal \in Signals, interval \in IntervalChoices,
          repeat \in BOOLEAN : SignalInterval(signal, interval, repeat)

SpecIntervals == InitThreads /\ [][NextIntervals]_vars

(***************************************************************************)
(* Groups of variables of the process tree.                                *)
(***************************************************************************)
threadVars == << proc_threads, thread_count, id_seed, nt_pc, nt_is_main,
                 nt_tid >>

signalVars == << sp_pc, sig_call, sig_delivered, sig_forwarded >>

intervalVars == << signal_intervals, last_interval >>

joinVars == << jpc, jkind, jsnap, jwaits, jret >>

\* The elements of a sequence.
Range(seq) == {seq[i] : i \in DOMAIN seq}

\* Vec::retain(|a| a.pid != pid) for every pid of a set.
Retain(seq, pids) == SelectSeq(seq, LAMBDA pid : pid \notin pids)

\* The children lists a process can have: the children in any order,
\* each at most once.
ChildLists ==
    {kids \in UNION {[1 .. n -> ChildPids] : n \in 0 .. NumChildren} :
        \A i, k \in DOMAIN kids : kids[i] = kids[k] => i = k}

(***************************************************************************)
(* WasiProcessWait::new and Drop for WasiProcessWait on the waiter counter *)
(* of process p.                                                           *)
(***************************************************************************)
NewWait(w, p) == [w EXCEPT ![p] = @ + 1]

DropWait_leak(w, p) == w

DropWait(w, p) == [w EXCEPT ![p] = @ - 1]

\* The counters after a guard was taken for every process of `taken` and
\* one was dropped for every process of `dropped`.
Waits(w, taken, dropped) ==
    [p \in Procs |->
        LET a == IF p \in taken THEN NewWait(w, p)[p] ELSE w[p]
        IN  IF p \in dropped THEN DropWait([w EXCEPT ![p] = a], p)[p] ELSE a]

(***************************************************************************)
(* The main thread of process p finishes with an exit code: the            *)
(* termination status of the process is set, once.                         *)
(***************************************************************************)
Exit(p, code) ==
    /\ ~finished[p].done
    /\ finished' = [finished EXCEPT ![p] = Finished(code)]
    /\ first_exit' = IF first_exit = NoProc /\ p \in ChildPids
                        THEN p
                        ELSE first_exit
    /\ UNCHANGED << threadVars, signalVars, intervalVars, joinVars, children,
                    waiting, registered >>
    /\ UNCHANGED << ckptVars, backoffVars, lockVars >>

(***************************************************************************)
(* signal_process, the first critical section: with a waiter and children  *)
(* the signal goes to signal_process of every child and the call returns.  *)
(***************************************************************************)
ForwardsToChildren_noWaiter(p) == children[p] # << >>

ForwardsToChildren(p) == waiting[p] > 0 /\ children[p] # << >>

\* The threads that signal_process of process p signals.
RECURSIVE SignalProcessTargets(_)
SignalProcessTargets(p) ==
    IF ForwardsToChildren(p)
      THEN UNION {SignalProcessTargets(c) : c \in Range(children[p])}
      ELSE {<< p, tid >> : tid \in DOMAIN proc_threads[p]}

SignalProcessCheck(signal) ==
    /\ sp_pc = "idle"
    /\ inner_lock = NoThread
    /\ sig_call' = [op |-> "signal_process", tid |-> 0, signal |-> signal]
    /\ IF ForwardsToChildren(RootPid)
         THEN /\ sig_forwarded' = Range(children[RootPid])
              /\ sig_delivered' =
                     UNION {SignalProcessTargets(c) :
                                c \in Range(children[RootPid])}
              /\ UNCHANGED sp_pc
         ELSE /\ sig_forwarded' = {}
              /\ sig_delivered' = {}
              /\ sp_pc' = "deliver"
    /\ UNCHANGED << threadVars, intervalVars, joinVars, children, waiting,
                    finished, registered, first_exit >>
    /\ UNCHANGED << ckptVars, backoffVars, lockVars >>

(***************************************************************************)
(* signal_process, the second critical section: every thread of the table  *)
(* is signalled.                                                           *)
(***************************************************************************)
SignalProcessDeliver ==
    /\ sp_pc = "deliver"
    /\ inner_lock = NoThread
    /\ sig_delivered' = {<< RootPid, tid >> : tid \in DOMAIN proc_threads[RootPid]}
    /\ sp_pc' = "idle"
    /\ UNCHANGED << sig_call, sig_forwarded >>
    /\ UNCHANGED << threadVars, intervalVars, joinVars, children, waiting,
                    finished, registered, first_exit >>
    /\ UNCHANGED << ckptVars, backoffVars, lockVars >>

(***************************************************************************)
(* join, join_children, join_any_child: WasiProcessWait::new(self), the    *)
(* first statement of each.                                                *)
(***************************************************************************)
\* The join functions that wait for children.
RaceKinds == {"join_children", "join_any_child"}

JoinEnter(j, kind) ==
    /\ jpc[j] = "idle"
    /\ waiting' = NewWait(waiting, RootPid)
    /\ jkind' = [jkind EXCEPT ![j] = kind]
    /\ jpc' = [jpc EXCEPT ![j] = IF kind = "join" THEN "await" ELSE "snap"]
    /\ jret' = NoJoinReturn
    /\ UNCHANGED << threadVars, signalVars, intervalVars, jsnap, jwaits,
                    children, finished, registered, first_exit >>
    /\ UNCHANGED << ckptVars, backoffVars, lockVars >>

\* The futures pushed to `waits`: one for every child of the clone that
\* get_process finds, in the order of the list, not polled yet.
WaitsOf(kids) ==
    LET found == SelectSeq(kids, LAMBDA pid : pid \in registered)
    IN  [i \in DOMAIN found |-> [child |-> found[i], st |-> "new"]]

(***************************************************************************)
(* join_children and join_any_child: the children list is cloned under the *)
(* mutex.  With an empty clone the call returns (None, or Errno::Child)    *)
(* and its guard is dropped.  Otherwise the futures are built;             *)
(* select_all panics when there is none, which drops the guard as well.    *)
(***************************************************************************)
JoinSnapshot(j) ==
    /\ jpc[j] = "snap"
    /\ inner_lock = NoThread
    /\ LET kids == children[RootPid]
           waits == WaitsOf(kids)
       IN  IF kids = << >>
             THEN /\ jret' = [kind |-> jkind[j],
                              val |-> IF jkind[j] = "join_children"
                                        THEN "None"
                                        ELSE "Child",
                              pid |-> 0, code |-> 0, dropped |-> 0,
                              removed |-> 0]
                  /\ waiting' = DropWait(waiting, RootPid)
                  /\ jpc' = [jpc EXCEPT ![j] = "idle"]
                  /\ jkind' = [jkind EXCEPT ![j] = "-"]
                  /\ UNCHANGED << jsnap, jwaits >>
             ELSE IF jkind[j] = "join_any_child" /\ waits = << >>
                    THEN /\ jret' = [kind |-> jkind[j], val |-> "panic",
                                     pid |-> 0, code |-> 0, dropped |-> 0,
                                     removed |-> 0]
                         /\ waiting' = DropWait(waiting, RootPid)
                         /\ jpc' = [jpc EXCEPT ![j] = "idle"]
                         /\ jkind' = [jkind EXCEPT ![j] = "-"]
                         /\ UNCHANGED << jsnap, jwaits >>
                    ELSE /\ jsnap' = [jsnap EXCEPT ![j] = kids]
                         /\ jwaits' = [jwaits EXCEPT ![j] = waits]
                         /\ jpc' = [jpc EXCEPT ![j] = "await"]
                         /\ UNCHANGED << jret, waiting, jkind >>
    /\ UNCHANGED << threadVars, signalVars, intervalVars, children, finished,
                    registered, first_exit >>
    /\ UNCHANGED << ckptVars, backoffVars, lockVars >>

(***************************************************************************)
(* join: the termination status of the process is awaited; when it is set  *)
(* the call returns it and the guard is dropped.                           *)
(***************************************************************************)
JoinPollSelf(j) ==
    /\ jpc[j] = "await"
    /\ jkind[j] = "join"
    /\ finished[RootPid].done
    /\ jret' = [kind |-> "join", val |-> "Some", pid |-> RootPid,
                code |-> finished[RootPid].code, dropped |-> 0,
                removed |-> 0]
    /\ waiting' = DropWait(waiting, RootPid)
    /\ jpc' = [jpc EXCEPT ![j] = "idle"]
    /\ jkind' = [jkind EXCEPT ![j] = "-"]
    /\ UNCHANGED << threadVars, signalVars, intervalVars, jsnap, jwaits,
                    children, finished, registered, first_exit >>
    /\ UNCHANGED << ckptVars, backoffVars, lockVars >>

\* The children of the futures of `waits` that are in state st.
ChildrenIn(waits, st) ==
    {waits[i].child : i \in {k \in DOMAIN waits : waits[k].st = st}}

\* The processes of a set that have terminated.
Terminated(pids) == {p \in pids : finished[p].done}

(***************************************************************************)
(* join_children: a poll of join_all.  Every future that is not ready is   *)
(* polled: it calls join() of its child (a guard on the child), and once   *)
(* the child has terminated it drops that guard, removes the child from    *)
(* the children list under the mutex and is ready.  When all futures are   *)
(* ready the call returns the output of the first one, or None without     *)
(* any future, and its guard is dropped.                                   *)
(***************************************************************************)
\* .into_iter().next() on the outputs of join_all: the child whose result
\* the call returns.
FirstOutput_last(waits) == waits[Len(waits)].child

FirstOutput(waits) == waits[1].child

JoinAllReady_first(waits) == \E i \in DOMAIN waits : waits[i].st = "ready"

JoinAllReady(waits) == \A i \in DOMAIN waits : waits[i].st = "ready"

JoinPollAll(j) ==
    /\ jpc[j] = "await"
    /\ jkind[j] = "join_children"
    /\ inner_lock = NoThread
    /\ LET w == jwaits[j]
           started == ChildrenIn(w, "new")
           joined == ChildrenIn(w, "joined")
           completed == Terminated(started \cup joined)
           w2 == [i \in DOMAIN w |->
                     [w[i] EXCEPT
                         !.st = IF w[i].st = "ready" \/ finished[w[i].child].done
                                  THEN "ready"
                                  ELSE "joined"]]
           polled == Waits(waiting, started, completed)
       IN  /\ w2 # w \/ JoinAllReady(w2)
           /\ children' = [children EXCEPT ![RootPid] = Retain(@, completed)]
           /\ IF JoinAllReady(w2)
                THEN /\ jret' = IF w = << >>
                                  THEN [kind |-> "join_children",
                                        val |-> "None", pid |-> 0, code |-> 0,
                                        dropped |-> 0, removed |-> 0]
                                  ELSE [kind |-> "join_children",
                                        val |-> "Some",
                                        pid |-> FirstOutput(w),
                                        code |-> finished[FirstOutput(w)].code,
                                        dropped |-> 0, removed |-> Len(w)]
                     /\ waiting' = DropWait(polled, RootPid)
                     /\ jpc' = [jpc EXCEPT ![j] = "idle"]
                     /\ jkind' = [jkind EXCEPT ![j] = "-"]
                     /\ jsnap' = [jsnap EXCEPT ![j] = << >>]
                     /\ jwaits' = [jwaits EXCEPT ![j] = << >>]
                ELSE /\ waiting' = polled
                     /\ jwaits' = [jwaits EXCEPT ![j] = w2]
                     /\ UNCHANGED << jret, jpc, jkind, jsnap >>
    /\ UNCHANGED << threadVars, signalVars, intervalVars, finished,
                    registered, first_exit >>
    /\ UNCHANGED << ckptVars, backoffVars, lockVars >>

(***************************************************************************)
(* join_any_child: a poll of select_all.  The futures are polled in the    *)
(* order of the list up to the first one that is ready: that one has       *)
(* removed its child from the children list, the others are dropped with   *)
(* their guards, and the call returns the pid and the exit code of the     *)
(* child and drops its own guard.  With no future ready every future has   *)
(* been polled and holds a guard on its child.                             *)
(***************************************************************************)
SelectWinner_last(waits) ==
    LET ready == {i \in DOMAIN waits : finished[waits[i].child].done}
    IN  CHOOSE i \in ready : \A k \in ready : k <= i

SelectWinner(waits) ==
    LET ready == {i \in DOMAIN waits : finished[waits[i].child].done}
    IN  CHOOSE i \in ready : \A k \in ready : i <= k

JoinPollAny(j) ==
    /\ jpc[j] = "await"
    /\ jkind[j] = "join_any_child"
    /\ inner_lock = NoThread
    /\ LET w == jwaits[j]
           started == ChildrenIn(w, "new")
           joined == ChildrenIn(w, "joined")
       IN  IF Terminated(started \cup joined) # {}
             THEN LET win == SelectWinner(w)
                      child == w[win].child
                      before == {w[i].child : i \in 1 .. (win - 1)}
                      polled == (started \cap before) \cup
                                    ({child} \cap started)
                  IN  /\ children' = [children EXCEPT ![RootPid] =
                                         Retain(@, {child})]
                      /\ jret' = [kind |-> "join_any_child", val |-> "Some",
                                  pid |-> child,
                                  code |-> finished[child].code,
                                  dropped |->
                                      Cardinality((joined \cup before)
                                                      \ {child}),
                                  removed |-> 1]
                      /\ waiting' =
                             DropWait(Waits(waiting, polled,
                                            joined \cup polled), RootPid)
                      /\ jpc' = [jpc EXCEPT ![j] = "idle"]
                      /\ jkind' = [jkind EXCEPT ![j] = "-"]
                      /\ jsnap' = [jsnap EXCEPT ![j] = << >>]
                      /\ jwaits' = [jwaits EXCEPT ![j] = << >>]
             ELSE /\ started # {}
                  /\ waiting' = Waits(waiting, started, {})
                  /\ jwaits' = [jwaits EXCEPT ![j] =
                                   [i \in DOMAIN w |->
                                       [w[i] EXCEPT !.st = "joined"]]]
                  /\ UNCHANGED << children, jret, jpc, jkind, jsnap >>
    /\ UNCHANGED << threadVars, signalVars, intervalVars, finished,
                    registered, first_exit >>
    /\ UNCHANGED << ckptVars, backoffVars, lockVars >>

(***************************************************************************)
(* The future of a join function is dropped while it is pending: its guard *)
(* and the guards of its futures on the children are dropped.              *)
(***************************************************************************)
JoinCancel(j) ==
    /\ jpc[j] = "await"
    /\ waiting' = DropWait(Waits(waiting, {}, ChildrenIn(jwaits[j], "joined")),
                           RootPid)
    /\ jret' = [kind |-> jkind[j], val |-> "dropped", pid |-> 0, code |-> 0,
                dropped |-> Cardinality(ChildrenIn(jwaits[j], "joined")),
                removed |-> 0]
    /\ jpc' = [jpc EXCEPT ![j] = "idle"]
    /\ jkind' = [jkind EXCEPT ![j] = "-"]
    /\ jsnap' = [jsnap EXCEPT ![j] = << >>]
    /\ jwaits' = [jwaits EXCEPT ![j] = << >>]
    /\ UNCHANGED << threadVars, signalVars, intervalVars, children, finished,
                    registered, first_exit >>
    /\ UNCHANGED << ckptVars, backoffVars, lockVars >>

(***************************************************************************)
(* A process with its main thread and a second thread, with any list of    *)
(* children, of which the control plane finds any subset: calls of        *)
(* join_children and join_any_child, with their calls of join on the       *)
(* children, while the children terminate.                                 *)
(***************************************************************************)
InitJoin ==
    /\ InitCheckpoint
    /\ InitCpu(DefaultMaxBackoff)
    /\ \E kids \in ChildLists, known \in SUBSET ChildPids :
           InitTree(MainAndOne(RootPid), kids, FirstThreadId, known)

NextJoin ==
    \/ \E p \in ChildPids, code \in ExitCodes : Exit(p, code)
    \/ \E j \in Joiners, kind \in RaceKinds : JoinEnter(j, kind)
    \/ \E j \in Joiners : JoinSnapshot(j)
    \/ \E j \in Joiners : JoinPollAll(j)
    \/ \E j \in Joiners : JoinPollAny(j)
    \/ \E j \in Joiners : JoinCancel(j)

SpecJoin == InitJoin /\ [][NextJoin]_vars

(***************************************************************************)
(* Calls of signal_process on a process with its main thread and a second  *)
(* thread and any list of children, while calls of join begin, return and  *)
(* are dropped.                                                            *)
(***************************************************************************)
InitSignal ==
    /\ InitCheckpoint
    /\ InitCpu(DefaultMaxBackoff)
    /\ \E kids \in ChildLists :
           InitTree(MainAndOne(RootPid), kids, FirstThreadId, ChildPids)

NextSignal ==
    \/ \E code \in ExitCodes : Exit(RootPid, code)
    \/ \E signal \in Signals : SignalProcessCheck(signal)
    \/ SignalProcessDeliver
    \/ \E j \in Joiners : JoinEnter(j, "join")
    \/ \E j \in Joiners : JoinPollSelf(j)
    \/ \E j \in Joiners : JoinCancel(j)

SpecSignal == InitSignal /\ [][NextSignal]_vars

(***************************************************************************)
(* The process mutexes.  signal_process takes the mutex of its process     *)
(* twice, and calls signal_process of every child inside the first         *)
(* critical section; the other operations take one mutex, once.            *)
(***************************************************************************)
\* Operations with a single `self.inner.0.lock()` and no call of another
\* locking function while the guard lives.
SingleLockOps == {"signal_thread", "retain"}

\* MutexGuard: Mutex::lock returning, and the guard being dropped.
Acquire(m, p, op) == [m EXCEPT ![p] = op]

Release_keep(m, p) == m

Release(m, p) == [m EXCEPT ![p] = Free]

\* The mutexes an operation holds.
HeldBy(op) == {p \in Procs : locked_by[p] = op}

\* The innermost call of signal_process.
Top == sp_stack[Len(sp_stack)]

SetTop(frame) == [sp_stack EXCEPT ![Len(sp_stack)] = frame]

Pop == SubSeq(sp_stack, 1, Len(sp_stack) - 1)

\* signal_process is called on the root process.
SpCall ==
    /\ sp_stack = << >>
    /\ sp_stack' = << [pid |-> RootPid, pc |-> "lock1", i |-> 1] >>
    /\ UNCHANGED locked_by
    /\ UNCHANGED << ckptVars, backoffVars, treeVars >>

\* The first `self.inner.0.lock()` returns; the waiter counter and the
\* children list are looked at under it.
SpLockFirst ==
    /\ sp_stack # << >>
    /\ Top.pc = "lock1"
    /\ locked_by[Top.pid] = Free
    /\ locked_by' = Acquire(locked_by, Top.pid, "signal_process")
    /\ sp_stack' = SetTop([Top EXCEPT !.pc = IF ForwardsToChildren(Top.pid)
                                               THEN "forward"
                                               ELSE "release1"])
    /\ UNCHANGED << ckptVars, backoffVars, treeVars >>

\* child.signal_process(signal) for the next child of the list, with the
\* guard of the first critical section alive.
SpForwardChild ==
    /\ sp_stack # << >>
    /\ Top.pc = "forward"
    /\ Top.i <= Len(children[Top.pid])
    /\ sp_stack' = Append(SetTop([Top EXCEPT !.i = @ + 1]),
                          [pid |-> children[Top.pid][Top.i],
                           pc |-> "lock1", i |-> 1])
    /\ UNCHANGED locked_by
    /\ UNCHANGED << ckptVars, backoffVars, treeVars >>

\* The end of the first critical section: the guard is dropped, by the
\* return after the loop or by the end of the block.
SpFirstDone ==
    /\ sp_stack # << >>
    /\ \/ Top.pc = "forward" /\ Top.i > Len(children[Top.pid])
       \/ Top.pc = "release1"
    /\ locked_by' = Release(locked_by, Top.pid)
    /\ sp_stack' = IF Top.pc = "forward"
                     THEN Pop
                     ELSE SetTop([Top EXCEPT !.pc = "lock2"])
    /\ UNCHANGED << ckptVars, backoffVars, treeVars >>

\* The second `self.inner.0.lock()` returns.
SpLockSecond ==
    /\ sp_stack # << >>
    /\ Top.pc = "lock2"
    /\ locked_by[Top.pid] = Free
    /\ locked_by' = Acquire(locked_by, Top.pid, "signal_process")
    /\ sp_stack' = SetTop([Top EXCEPT !.pc = "deliver"])
    /\ UNCHANGED << ckptVars, backoffVars, treeVars >>

\* The threads are signalled and the function returns.
SpDeliver ==
    /\ sp_stack # << >>
    /\ Top.pc = "deliver"
    /\ locked_by' = Release(locked_by, Top.pid)
    /\ sp_stack' = Pop
    /\ UNCHANGED << ckptVars, backoffVars, treeVars >>

\* The critical section of an operation with a single lock, on process p.
LockFor(op, p) ==
    /\ HeldBy(op) = {}
    /\ locked_by[p] = Free
    /\ locked_by' = Acquire(locked_by, p, op)
    /\ UNCHANGED sp_stack
    /\ UNCHANGED << ckptVars, backoffVars, treeVars >>

UnlockBy(op, p) ==
    /\ locked_by[p] = op
    /\ locked_by' = Release(locked_by, p)
    /\ UNCHANGED sp_stack
    /\ UNCHANGED << ckptVars, backoffVars, treeVars >>

NextLocks ==
    \/ SpCall
    \/ SpLockFirst
    \/ SpForwardChild
    \/ SpFirstDone
    \/ SpLockSecond
    \/ SpDeliver
    \/ \E op \in SingleLockOps, p \in Procs : LockFor(op, p)
    \/ \E op \in SingleLockOps, p \in Procs : UnlockBy(op, p)
    \/ \E j \in Joiners : JoinEnter(j, "join")
    \/ \E j \in Joiners : JoinCancel(j)

SpecLocks == InitSignal /\ [][NextLocks]_vars

(***************************************************************************)
(* The scheduler alone, for every configured maximum backoff.              *)
(***************************************************************************)
InitBackoff ==
    /\ InitCheckpoint
    /\ \E max \in MaxBackoffChoices : InitCpu(max)
    /\ InitTreeFresh

NextBackoff ==
    \/ \E ms \in {1, max_cpu_cool_off_time} : Tick(ms)
    \/ RunTokenAdd
    \/ RunTokenLocked
    \/ DropRunToken
    \/ \E c \in Callers : BackoffCheck(c)
    \/ \E c \in Callers : BackoffLocked(c)
    \/ \E c \in Callers : BackoffReturn(c)
    \/ \E k \in TokenIds : Poll(k)
    \/ \E k \in TokenIds : DropBackoffToken(k)

SpecBackoff == InitBackoff /\ [][NextBackoff]_vars

(***************************************************************************)
(* The scheduler with the default maximum backoff, over two cool-off       *)
(* periods and with several tokens alive at once.                          *)
(***************************************************************************)
InitRatchet ==
    /\ InitCheckpoint
    /\ InitCpuTokens(DefaultMaxBackoff, 1 .. RatchetTokens)
    /\ InitTreeFresh

NextRatchet ==
    \/ \E ms \in {1, max_cpu_cool_off_time} : TickUntil(ms, RatchetNow)
    \/ RunTokenAdd
    \/ RunTokenLocked
    \/ DropRunToken
    \/ \E c \in Callers : BackoffCheckUpTo(c, RatchetTokens)
    \/ \E c \in Callers : BackoffLocked(c)
    \/ \E c \in Callers : BackoffReturn(c)
    \/ \E k \in 1 .. RatchetTokens : Poll(k)
    \/ \E k \in 1 .. RatchetTokens : DropBackoffToken(k)

SpecRatchet == InitRatchet /\ [][NextRatchet]_vars

(***************************************************************************)
(* The checkpoint rendezvous with every outcome of the journal.            *)
(***************************************************************************)
Init == InitCheckpoint /\ InitCpu(DefaultMaxBackoff) /\ InitTreeFresh

Next ==
    \/ \E t \in Threads, trigger \in Triggers : Checkpoint(t, trigger)
    \/ \E t \in Threads : MaybeCheckpoint(t)
    \/ \E t \in Threads : SaveThreadStateOk(t)
    \/ \E t \in Threads : SaveThreadStateErr(t)
    \/ \E t \in Threads : Lock(t)
    \/ \E t \in Threads : LoopSnapshot(t)
    \/ \E t \in Threads : LoopFinished(t)
    \/ \E t \in Threads : SaveMemoryBegin(t)
    \/ \E t \in Threads : SaveMemoryOk(t)
    \/ \E t \in Threads : SaveMemoryErr(t)
    \/ \E t \in Threads : RewindOk(t)
    \/ \E t \in Threads : RewindErr(t)
    \/ \E t \in Threads : SpuriousWake(t)

Spec == Init /\ [][Next]_vars

(***************************************************************************)
(* The rendezvous when the journal never fails and every thread keeps      *)
(* reaching its safe points: each thread that can call maybe_checkpoint,   *)
(* take the mutex or go on inside the callback eventually does.            *)
(***************************************************************************)
NextLive ==
    \/ \E t \in Threads, trigger \in Triggers : Checkpoint(t, trigger)
    \/ \E t \in Threads : MaybeCheckpoint(t)
    \/ \E t \in Threads : SaveThreadStateOk(t)
    \/ \E t \in Threads : Lock(t)
    \/ \E t \in Threads : LoopSnapshot(t)
    \/ \E t \in Threads : LoopFinished(t)
    \/ \E t \in Threads : SaveMemoryBegin(t)
    \/ \E t \in Threads : SaveMemoryOk(t)
    \/ \E t \in Threads : RewindOk(t)
    \/ \E t \in Threads : SpuriousWake(t)

FairThreads ==
    \A t \in Threads :
        /\ WF_vars(MaybeCheckpoint(t))
        /\ WF_vars(SaveThreadStateOk(t))
        /\ WF_vars(Lock(t))
        /\ WF_vars(LoopSnapshot(t))
        /\ WF_vars(LoopFinished(t))
        /\ WF_vars(SaveMemoryBegin(t))
        /\ WF_vars(SaveMemoryOk(t) \/ SaveMemoryErr(t))
        /\ WF_vars(RewindOk(t))

SpecLive == Init /\ [][NextLive]_vars /\ FairThreads

(***************************************************************************)
(* The same, with whole-process writes that may fail.                      *)
(***************************************************************************)
NextFailLive ==
    \/ NextLive
    \/ \E t \in Threads : SaveMemoryErr(t)

SpecFailLive == Init /\ [][NextFailLive]_vars /\ FairThreads

(***************************************************************************)
(* Positions of a thread.                                                  *)
(***************************************************************************)
\* Inside the unwind callback of maybe_checkpoint.
InRendezvous(t) ==
    pc[t] \in {"unwind", "lock", "loop", "wait", "woken", "save", "saving", "rewind"}

\* Blocked in Condvar::wait, or notified and waiting for the mutex.
Blocked(t) == pc[t] \in {"wait", "woken"}

\* The step in which thread t leaves the loop to rewind and resume.
Leaves(t) == pc[t] = "loop" /\ pc'[t] = "rewind"

\* The step in which the phase returns from Snapshot to Execute.
CycleEnds == IsSnapshot(checkpoint) /\ checkpoint' = Execute

(***************************************************************************)
(* C1: between the phase becoming Snapshot and the phase returning to      *)
(* Execute exactly one whole-process snapshot write                        *)
(* (save_memory_and_snapshot) is issued.  The code issues the write again  *)
(* after a failed one: the failing thread traps with the phase still       *)
(* Snapshot and its mark still set, and the first thread it woke finds     *)
(* every thread marked.                                                    *)
(***************************************************************************)
C1_ExactlyOneWriteIssued == [][CycleEnds => cycle_issued' = 1]_vars

(***************************************************************************)
(* C2: the whole-process write is issued and runs only while every thread  *)
(* of the thread table is marked checkpointing, and a thread leaves the    *)
(* rendezvous only with the phase Execute, no write running, and the write *)
(* of the cycle in which it entered completed.                             *)
(***************************************************************************)
C2_NoResumeBeforeWrite ==
    /\ [](\A t \in Threads :
            pc[t] \in {"save", "saving"} =>
                \A tid \in DOMAIN threads : check_pointing[threads[tid]])
    /\ [][\A t \in Threads :
            Leaves(t) =>
                /\ checkpoint = Execute
                /\ \A u \in Threads : pc[u] # "saving"
                /\ entered[t] >= 1
                /\ last_completed >= entered[t]]_vars

\* A thread that waited in the rendezvous is about to resume after the
\* write of its cycle, which another thread performed.
C2_Witness ==
    \E t \in Threads :
        /\ pc[t] = "rewind"
        /\ last_completed = entered[t]
        /\ cycle_done = 1
        /\ \E u \in Threads : u # t /\ check_pointing[u] /\ Blocked(u)

(***************************************************************************)
(* C3: barrier liveness.  When the journal writes succeed and every        *)
(* thread keeps calling maybe_checkpoint, a phase Snapshot leads to the    *)
(* phase Execute, and every thread inside the rendezvous leaves it and     *)
(* runs again.                                                             *)
(***************************************************************************)
C3_BarrierLiveness ==
    /\ IsSnapshot(checkpoint) ~> (checkpoint = Execute)
    /\ \A t \in Threads : InRendezvous(t) ~> (pc[t] = "run")

\* A thread blocked in Condvar::wait while another one has not arrived.
C3_Witness ==
    \E t, u \in Threads :
        /\ pc[t] = "wait"
        /\ pc[u] = "run"
        /\ IsSnapshot(checkpoint)
        /\ ~check_pointing[u]

(***************************************************************************)
(* C4: when the whole-process write fails, the thread that attempted it    *)
(* traps and no thread is left in Condvar::wait; every thread that was     *)
(* blocked in the rendezvous gets out of it, resuming or trapping.         *)
(***************************************************************************)
C4_FailureWakesAll ==
    /\ [][\A t \in Threads :
            (pc[t] = "saving" /\ cycle_failed' # cycle_failed) =>
                /\ pc'[t] = "trapped"
                /\ inner_lock' = NoThread
                /\ \A u \in Threads : pc'[u] # "wait"]_vars
    /\ \A t \in Threads :
            (cycle_failed > 0 /\ Blocked(t)) ~> (pc[t] \in {"run", "trapped"})

\* The write failed, its thread trapped, and a thread the failure woke
\* has resumed in the same cycle.
C4_Witness ==
    \E t, u \in Threads :
        /\ cycle_failed > 0
        /\ pc[t] = "trapped"
        /\ check_pointing[t]
        /\ pc[u] = "run"
        /\ entered[u] = cycle
        /\ last_completed = cycle

(***************************************************************************)
(* C5: every write of the phase is Execute -> Snapshot, made by            *)
(* checkpoint, or Snapshot -> Execute, made by the thread performing the   *)
(* whole-process write; the phase is never written from Snapshot to        *)
(* Snapshot.  checkpoint assigns the phase whatever it was.                *)
(***************************************************************************)
C5_PhaseTransitions ==
    [][/\ requests' # requests =>
            (checkpoint = Execute /\ IsSnapshot(checkpoint'))
       /\ (requests' = requests /\ checkpoint' # checkpoint) =>
            /\ IsSnapshot(checkpoint)
            /\ checkpoint' = Execute
            /\ \E t \in Threads : pc[t] = "saving" /\ inner_lock = t]_vars

(***************************************************************************)
(* Steps of the scheduler.                                                 *)
(***************************************************************************)
\* The step in which a poll of token k ends: the token is ready, or a
\* waker of the token was registered under a fresh id.
PollOf(k) ==
    /\ tokens[k].state = "pending"
    /\ \/ tokens'[k].state = "ready"
       \/ /\ cpu_backoff_waker_seed' # cpu_backoff_waker_seed
          /\ cpu_backoff_wakers'[cpu_backoff_waker_seed'] = k

\* The step in which caller c, under the mutex and with no run token
\* held, decides what acquire_cpu_backoff_token returns.
Decides(c) ==
    /\ cpc[c] = "backoff_lock"
    /\ cpc'[c] # "backoff_lock"
    /\ cpu_run_tokens = 0

\* The step in which the duration of the token of caller c is fixed.
Issues(c) == cpc[c] = "backoff_lock" /\ cpc'[c] = "backoff_sleep"

C7_CancelledPollCompletes ==
    [][\A k \in TokenIds :
          (tokens[k].cancelled /\ PollOf(k)) => tokens'[k].state = "ready"]_vars

(***************************************************************************)
(* C8: the waker map holds no entry of a token that was dropped or is      *)
(* ready, and at most one entry for each pending token.  As the token      *)
(* never stores its waker id, neither poll nor drop removes an entry.      *)
(***************************************************************************)
C8_NoLeakedWakers ==
    \A id \in DOMAIN cpu_backoff_wakers :
        /\ tokens[cpu_backoff_wakers[id]].state = "pending"
        /\ \A other \in DOMAIN cpu_backoff_wakers :
               cpu_backoff_wakers[other] = cpu_backoff_wakers[id] => other = id

(***************************************************************************)
(* C9: with no acquire_cpu_run_token in between, the durations of the      *)
(* tokens issued do not decrease and do not exceed the configured maximum; *)
(* acquire_cpu_run_token makes the backoff time zero and the token issued  *)
(* next has the initial duration.  The initial duration is not capped:     *)
(* with a maximum below it the token exceeds the maximum.                  *)
(***************************************************************************)
C9_BackoffMonotone ==
    [][/\ \A c \in Callers :
            Issues(c) =>
                /\ last_issued' >= last_issued
                /\ last_issued' <= max_cpu_backoff_time
                /\ last_issued = 0 => last_issued' = InitialBackoff
       /\ run_locking' < run_locking => cpu_backoff_time' = 0]_vars

\* C9 for a configured maximum of at least the initial duration.
C9_MonotoneAboveInitial ==
    [][/\ \A c \in Callers :
            (Issues(c) /\ max_cpu_backoff_time >= InitialBackoff) =>
                /\ last_issued' >= last_issued
                /\ last_issued' <= max_cpu_backoff_time
                /\ last_issued = 0 => last_issued' = InitialBackoff
       /\ run_locking' < run_locking => cpu_backoff_time' = 0]_vars

(***************************************************************************)
(* C10: with the cool-off deadline unset the call sets it to now plus the  *)
(* cool-off time and returns None; at a time not after the deadline it     *)
(* returns None; a token is issued only with the deadline set and passed.  *)
(***************************************************************************)
C10_CoolOff ==
    [][\A c \in Callers :
          Decides(c) =>
              /\ cpu_run_cool_off = 0 =>
                     /\ cpc'[c] = "idle"
                     /\ ret'.val = "None"
                     /\ cpu_run_cool_off' =
                            now + NsPerMs * max_cpu_cool_off_time
              /\ (cpu_run_cool_off # 0 /\ now <= cpu_run_cool_off) =>
                     /\ cpc'[c] = "idle"
                     /\ ret'.val = "None"
                     /\ cpu_run_cool_off' = cpu_run_cool_off
              /\ Issues(c) =>
                     /\ cpu_run_cool_off # 0
                     /\ now > cpu_run_cool_off
                     /\ cpu_run_cool_off' = cpu_run_cool_off]_vars

\* A token was issued after the deadline, which an earlier call had set
\* at a time after the start of the clock.
C10_Witness ==
    \E c \in Callers :
        /\ cpc[c] = "backoff_sleep"
        /\ cpu_run_cool_off > NsPerMs * max_cpu_cool_off_time
        /\ now > cpu_run_cool_off

(***************************************************************************)
(* C20: acquire_cpu_backoff_token does not return a token at a moment at   *)
(* which the run-token count is above zero.  The count is an atomic that   *)
(* acquire_cpu_run_token increments before it takes the mutex, so it can   *)
(* rise after the second check and before the token is returned.           *)
(***************************************************************************)
C20_NoTokenWhileRunning ==
    [][\A c \in Callers :
          (cpc[c] = "backoff_sleep" /\ cpc'[c] = "idle" /\ ret'.val = "Token")
              => cpu_run_tokens = 0]_vars

(***************************************************************************)
(* Steps and states of the process tree.                                   *)
(***************************************************************************)
\* No call of new_thread is under way.
NewThreadQuiescent ==
    \A s \in Spawners : nt_pc[s] \in {"idle", "done", "failed"}

\* The calls of new_thread that took the pid as thread id or took their
\* thread for the main thread.
MainCalls ==
    {s \in Spawners : /\ nt_pc[s] \in {"insert", "done"}
                      /\ (nt_is_main[s] \/ nt_tid[s] = RootPid)}

\* A step of signal_thread.
SignalThreadStep ==
    /\ sig_call'.op = "signal_thread"
    /\ << sig_call', sig_delivered' >> # << sig_call, sig_delivered >>

(***************************************************************************)
(* C11: when no call of new_thread is under way, the thread counter of the *)
(* process equals the number of entries of its thread table.  Two calls    *)
(* that both read a counter of zero both take the pid as thread id: the    *)
(* second insert replaces the entry of the first and the counter is two.   *)
(***************************************************************************)
C11_CountEqualsTable ==
    NewThreadQuiescent =>
        thread_count[RootPid] = Cardinality(DOMAIN proc_threads[RootPid])

(***************************************************************************)
(* C12: the thread created as main has the pid as its id, every other      *)
(* thread has another id and is not main, and at most one call of          *)
(* new_thread creates a main thread.  Two calls that read the counter      *)
(* before either has inserted its thread are both main.                    *)
(***************************************************************************)
C12_OneMainThread ==
    /\ \A s \in Spawners :
           nt_pc[s] \in {"insert", "done"} =>
               (nt_is_main[s] <=> nt_tid[s] = RootPid)
    /\ Cardinality(MainCalls) <= 1

(***************************************************************************)
(* C14: signal_thread with the sentinel id signals the thread whose id is  *)
(* the pid and no other thread; without such a thread nothing is           *)
(* signalled; the state of the process does not change.                    *)
(***************************************************************************)
C14_SentinelIsMain ==
    [][(SignalThreadStep /\ sig_call'.tid = SentinelTid) =>
           /\ sig_delivered' =
                  IF RootPid \in DOMAIN proc_threads[RootPid]
                    THEN {<< RootPid, RootPid >>}
                    ELSE {}
           /\ sig_forwarded' = {}
           /\ UNCHANGED << proc_threads, thread_count, children,
                           signal_intervals, waiting, finished >>]_vars

\* The sentinel reached the main thread of a process with another thread.
C14_Witness ==
    /\ sig_call.op = "signal_thread"
    /\ sig_call.tid = SentinelTid
    /\ sig_delivered = {<< RootPid, RootPid >>}
    /\ FirstThreadId \in DOMAIN proc_threads[RootPid]

(***************************************************************************)
(* C19: the interval map holds, for every signal, the descriptor of the    *)
(* last call of signal_interval for that signal if that call passed an     *)
(* interval, with the time of that call as last_signal, and no descriptor  *)
(* if there was no call or the last call passed None.                      *)
(***************************************************************************)
C19_OneIntervalPerSignal ==
    /\ DOMAIN signal_intervals = {sig \in Signals : last_interval[sig].some}
    /\ \A sig \in DOMAIN signal_intervals :
           signal_intervals[sig] =
               [signal |-> sig, interval |-> last_interval[sig].ms,
                last_signal |-> last_interval[sig].at,
                repeat |-> last_interval[sig].repeat]

\* The descriptor of one signal was replaced by a later call, and the other
\* signal has none.
C19_Witness ==
    /\ DOMAIN signal_intervals = {"Sigint"}
    /\ last_interval["Sigint"].replaced
    /\ signal_intervals["Sigint"].interval = 2
    /\ signal_intervals["Sigint"].last_signal > 0

\* A step of the first critical section of signal_process.
SignalProcessCheckStep ==
    /\ sp_pc = "idle"
    /\ sig_call'.op = "signal_process"
    /\ signalVars' # signalVars

\* A step of the second critical section of signal_process.
SignalProcessDeliverStep == sp_pc = "deliver" /\ sp_pc' = "idle"

JoinCompletes(j, kind) ==
    /\ jkind[j] = kind
    /\ jpc[j] \in {"snap", "await"}
    /\ jpc'[j] = "idle"
    /\ jret'.val # "dropped"

\* The children of the clone that the control plane finds, in list order.
FoundChildren(j) == SelectSeq(jsnap[j], LAMBDA c : c \in registered)

\* C15 as stated: a completed join_children call on a non-empty list (every
\* child of it known to the control plane) has removed exactly one child,
\* the one whose result it returns.
C15_RemovesExactlyOne ==
    [][\A j \in Joiners :
          (/\ JoinCompletes(j, "join_children")
           /\ jpc[j] = "await"
           /\ Range(jsnap[j]) \subseteq registered)
              => /\ jret'.val = "Some"
                 /\ jret'.pid \notin Range(children'[RootPid])
                 /\ Cardinality(Range(children[RootPid])
                                  \ Range(children'[RootPid]))
                      + Cardinality(ChildrenIn(jwaits[j], "ready")) = 1]_vars

\* C15 amended: a completed join_children call has removed every child of
\* its call-time list that the control plane found, all of them terminated,
\* and none of the others; a call on an empty list returns the no-children
\* result in the step that clones the list and removes nothing.
C15_RemovesEveryJoinedChild ==
    [][\A j \in Joiners :
          /\ (JoinCompletes(j, "join_children") /\ jpc[j] = "await")
                => /\ Range(FoundChildren(j))
                          \cap Range(children'[RootPid]) = {}
                   /\ \A c \in Range(FoundChildren(j)) : finished[c].done
                   /\ Range(jsnap[j]) \ registered
                          \subseteq Range(children'[RootPid])
                   /\ IF FoundChildren(j) = << >>
                        THEN jret'.val = "None"
                        ELSE /\ jret'.val = "Some"
                             /\ jret'.pid \in Range(FoundChildren(j))
          /\ (jkind[j] = "join_children" /\ jpc[j] = "snap"
                  /\ jpc'[j] # "snap" /\ children[RootPid] = << >>)
                => /\ jpc'[j] = "idle"
                   /\ jret'.val = "None"
                   /\ children' = children]_vars

\* A join_children call has returned after removing two children.
C15_Witness ==
    /\ jret.kind = "join_children"
    /\ jret.val = "Some"
    /\ jret.removed >= 2
    /\ children[RootPid] = << >>


\* A poll of the join_all of call j in which a child that the call was
\* waiting for is found terminated: the first termination the call sees.
SeesFirstTermination(j) ==
    /\ jkind[j] = "join_children"
    /\ jpc[j] = "await"
    /\ Len(jwaits[j]) >= 2
    /\ ChildrenIn(jwaits[j], "joined") = Range(FoundChildren(j))
    /\ Terminated(ChildrenIn(jwaits[j], "joined")) # {}
    /\ << jpc[j], jwaits[j] >> # << jpc'[j], jwaits'[j] >>

\* C16 as stated: a join_children call waiting for several live children
\* completes at the first termination it sees, with the result of a child
\* that has terminated, whatever the state of the other children.
C16_CompletesAtFirstTermination ==
    [][\A j \in Joiners :
          (SeesFirstTermination(j) /\ jret'.val # "dropped")
              => /\ jpc'[j] = "idle"
                 /\ jret'.val = "Some"
                 /\ finished[jret'.pid].done]_vars

\* C16 amended: a join_children call completes only when every child it
\* joined has terminated, and it returns the result of the first of them
\* in the order of the children list.
C16_CompletesAfterAllFirstInList ==
    [][\A j \in Joiners :
          (/\ JoinCompletes(j, "join_children")
           /\ jpc[j] = "await"
           /\ FoundChildren(j) # << >>)
              => /\ \A c \in Range(FoundChildren(j)) : finished[c].done
                 /\ jret'.val = "Some"
                 /\ jret'.pid = FoundChildren(j)[1]
                 /\ jret'.code = finished[FoundChildren(j)[1]].code]_vars

\* A join_children call over two children has returned the result of the
\* child listed first although the other child terminated first.
C16_Witness ==
    /\ jret.kind = "join_children"
    /\ jret.val = "Some"
    /\ jret.removed >= 2
    /\ first_exit # NoProc
    /\ jret.pid # first_exit


\* The first child in list order, among those the call joined, that has
\* terminated.
EarliestTerminated(j) ==
    LET found == FoundChildren(j)
        i == CHOOSE k \in DOMAIN found :
                 /\ finished[found[k]].done
                 /\ \A m \in 1 .. (k - 1) : ~finished[found[m]].done
    IN  found[i]

CallsInProgress == {j \in Joiners : jpc[j] # "idle"}

\* The per-child futures of calls in progress that have entered join on
\* child c and have not been completed or dropped.
ChildJoinsInProgress(c) ==
    {ji \in Joiners \X (1 .. NumChildren) :
        /\ jpc[ji[1]] = "await"
        /\ ji[2] \in DOMAIN jwaits[ji[1]]
        /\ jwaits[ji[1]][ji[2]].child = c
        /\ jwaits[ji[1]][ji[2]].st = "joined"}

TimerElapses(k) ==
    /\ tokens[k].state = "pending"
    /\ tokens'[k].state = "ready"
    /\ now >= tokens[k].wake_at

\* min(2d, max)
DoubledAndClamped(d) ==
    IF 2 * d < max_cpu_backoff_time THEN 2 * d ELSE max_cpu_backoff_time

\* C21: when the timer of a token issued with duration d elapses with no
\* acquire_cpu_run_token since it was issued, the backoff duration goes from
\* d to min(2d, max) if it is still d and is left alone otherwise; a token
\* whose timer elapses after acquire_cpu_run_token reset the duration does
\* not raise it.
C21_RatchetOncePerGeneration ==
    [][\A k \in DOMAIN tokens :
          TimerElapses(k) =>
              IF tokens[k].stale
                THEN cpu_backoff_time' <= cpu_backoff_time
                ELSE cpu_backoff_time' =
                         IF cpu_backoff_time = tokens[k].cpu_backoff_time
                           THEN DoubledAndClamped(tokens[k].cpu_backoff_time)
                           ELSE cpu_backoff_time]_vars


\* The operations that take process mutexes.
LockOps == SingleLockOps \cup {"signal_process"}

\* C22 as stated: no operation holds two process mutexes at once.
C22_AtMostOneLock == \A op \in LockOps : Cardinality(HeldBy(op)) <= 1

\* The mutex a call of signal_process is about to take.
SpWantsLock == sp_stack # << >> /\ Top.pc \in {"lock1", "lock2"}

\* C22 amended: only signal_process holds mutexes of two processes, always
\* those of a process and of one of its children, taken parent first; what
\* it holds are mutexes of the processes on its call stack, and every other
\* operation holds at most one.
C22_NestedOnlyParentThenChild ==
    /\ \A op \in SingleLockOps : Cardinality(HeldBy(op)) <= 1
    /\ HeldBy("signal_process") \subseteq
           {sp_stack[n].pid : n \in DOMAIN sp_stack}
    /\ \A n \in DOMAIN sp_stack :
           n > 1 => /\ sp_stack[n].pid \in Range(children[sp_stack[n - 1].pid])
                    /\ locked_by[sp_stack[n - 1].pid] = "signal_process"
                    /\ sp_stack[n - 1].pc = "forward"
    /\ SpWantsLock => Top.pid \notin HeldBy("signal_process")

\* signal_process holds the mutex of the root process and of a child.
C22_Witness ==
    /\ locked_by[RootPid] = "signal_process"
    /\ \E c \in Range(children[RootPid]) : locked_by[c] = "signal_process"
    /\ Len(sp_stack) = 2


\* C23: a thread is marked as check-pointing only while it is inside the
\* rendezvous of maybe_checkpoint; once it has left, resumed or trapped,
\* its mark is cleared.
C23_MarkOnlyInRendezvous ==
    \A t \in Threads : check_pointing[t] => InRendezvous(t)


\* C24: join_any_child on a non-empty clone of the children list ends in a
\* defined outcome whatever get_process finds: when the futures have been
\* built it either waits on at least one of them or has returned an error
\* value, and when it returns it returns a child of the clone; it never
\* faults.
C24_DefinedOutcome ==
    [][\A j \in Joiners :
          (/\ jkind[j] = "join_any_child"
           /\ jpc[j] \in {"snap", "await"}
           /\ jpc'[j] # jpc[j]
           /\ children[RootPid] # << >>
           /\ jret'.val # "dropped")
              => IF jpc'[j] = "await"
                   THEN jwaits'[j] # << >>
                   ELSE \/ jret'.val = "Child"
                        \/ /\ jret'.val = "Some"
                           /\ jret'.pid \in Range(jsnap[j])]_vars

=============================================================================
